---- MODULE Spec2Model ----
(***************************************************************************)
(* Detection pipeline of alpinesight-app                                   *)
(* (api/_utils/object_detection/onnx_detector.py, class YOLO_ONNX):        *)
(* letterbox preprocessing, confidence filter, coordinate rescaling and    *)
(* greedy NMS; and its callers: lambda/handler.py (lambda_handler),         *)
(* api/_utils/object_detection/run_func.py (the batch over a time series)  *)
(* and the vehicle-label filters of run_func.py, detect.py and obb.py.     *)
(*                                                                         *)
(* Numbers.  The Python code computes in IEEE floats.  The model computes  *)
(* the same expressions in exact rational arithmetic: a rational is a pair *)
(* <<n, d>> with d > 0 in lowest terms.  round() is Python 3's round (half *)
(* to even).  The two float outcomes that no rational has, NaN and Inf     *)
(* (from a division by zero), are modelled where the code can produce     *)
(* them (IouLe).  Sequences are 1-based; class ids stay 0-based.           *)
(***************************************************************************)
EXTENDS Integers, Sequences, FiniteSets

VARIABLES
    input_height,   \* YOLO_ONNX.input_height (the model's declared canvas rows)
    input_width,    \* YOLO_ONNX.input_width
    lb_pc,          \* where the letterbox / rescale sequence stands
    lb_shape,       \* img.shape[:2] of the image given to _letterbox: <<h, w>>
    lb_out,         \* what _letterbox produced (the canvas dims, paddings) or that it raised
    lb_box,         \* an original-space box <<x1, y1, x2, y2>>
    lb_back,        \* the box _scale_boxes returned for lb_box placed on the canvas
    nms_pc,         \* where the _nms calls stand
    nms_boxes,      \* boxes argument of _nms (sequence of <<x1, y1, x2, y2>>)
    nms_scores,     \* scores argument of _nms
    nms_thr,        \* iou_threshold argument of _nms
    nms_keep,       \* the list the first call returned
    nms_keep2,      \* the list a second call on the same arguments returned
    nms_rerun,      \* the list a call on the first call's own output returned
    pp_outputs,     \* the raw output handed to postprocess: one record per anchor
    pp_orig_shape,  \* orig_shape argument of postprocess: <<h, w>>
    pp_iou,         \* iou_threshold argument of postprocess
    pp_runs,        \* the results of the postprocess calls made on pp_outputs: {[conf, dets], ...}
    session,        \* YOLO_ONNX.session ("None" until __init__ created it)
    input_name,     \* YOLO_ONNX.input_name
    output_names,   \* YOLO_ONNX.output_names
    names,          \* YOLO_ONNX.names: class id -> class name
    model_file,     \* the file at model_path: whether it exists and the input shape it declares
    pr_pc,          \* where the model object stands: "unloaded", "loaded", "load_raised"
    pr_args,        \* the arguments of the latest predict call
    pr_ret,         \* what the latest predict call did and returned
    pr_source,      \* the caller's image array after the latest predict call
    lh_event,       \* the event of the latest lambda_handler call
    lh_resp,        \* the response lambda_handler returned for it
    ac_stats,       \* what the latest annotate_and_count_image call returned or raised
    bt_pc,          \* where count_vehicles_timeseries_simple stands
    bt_args,        \* its arguments: image_paths, dates, and the files they name
    bt_i,           \* how many items of zip(image_paths, dates) the loop has taken
    bt_model,       \* whether the call has constructed its model
    bt_out,         \* annotated_paths, counts and details as built so far
    bt_files,       \* the items whose annotated image has been written
    bt_error,       \* the exception the call raised ("none" if none)
    bt_infer,       \* how many times the call has run model.predict
    lbl_pc,         \* where the vehicle-label filters stand
    lbl_name,       \* the class name given to the filters
    lbl_out         \* what each caller's filter answered for lbl_name

lbVars == <<lb_pc, lb_shape, lb_out, lb_box, lb_back>>
nmsVars == <<nms_pc, nms_boxes, nms_scores, nms_thr, nms_keep, nms_keep2, nms_rerun>>
ppVars == <<pp_outputs, pp_orig_shape, pp_iou, pp_runs>>
modelVars == <<input_height, input_width, session, input_name, output_names, names>>
prVars == <<model_file, pr_pc, pr_args, pr_ret, pr_source, lh_event, lh_resp, ac_stats>>
btVars == <<bt_pc, bt_args, bt_i, bt_model, bt_out, bt_files, bt_error, bt_infer>>
lblVars == <<lbl_pc, lbl_name, lbl_out>>
vars == <<input_height, input_width, lb_pc, lb_shape, lb_out, lb_box, lb_back,
          nms_pc, nms_boxes, nms_scores, nms_thr, nms_keep, nms_keep2, nms_rerun,
          pp_outputs, pp_orig_shape, pp_iou, pp_runs,
          session, input_name, output_names, names,
          model_file, pr_pc, pr_args, pr_ret, pr_source, lh_event, lh_resp, ac_stats,
          bt_pc, bt_args, bt_i, bt_model, bt_out, bt_files, bt_error, bt_infer,
          lbl_pc, lbl_name, lbl_out>>

---------------------------------------------------------------------------
(* Bounds of the model *)

\* canvas rows and columns range over MaxCanvas-1 .. MaxCanvas
MaxCanvas == 4
\* image rows and columns range over 1 .. MaxImg
MaxImg == 9
\* box corners of the _nms inputs lie on the grid 0 .. MaxX
MaxX == 2
\* the raw output has NumClasses class scores per anchor
NumClasses == 2
\* at most MaxCalls postprocess calls are made on one raw output
MaxCalls == 2
\* a batch has at most MaxItems image paths
MaxItems == 2

---------------------------------------------------------------------------
(* Rational arithmetic standing for the float arithmetic of the code *)

Abs(n) == IF n < 0 THEN -n ELSE n

RECURSIVE GCD(_, _)
GCD(a, b) == IF b = 0 THEN a ELSE GCD(b, a % b)

\* the rational n/d (d # 0) in lowest terms with a positive denominator
Rat(n, d) ==
    LET g == GCD(Abs(n), Abs(d))
        s == IF d < 0 THEN -1 ELSE 1
    IN  <<(s * n) \div g, (s * d) \div g>>

FromInt(i) == <<i, 1>>
RAdd(a, b) == Rat(a[1] * b[2] + b[1] * a[2], a[2] * b[2])
RSub(a, b) == Rat(a[1] * b[2] - b[1] * a[2], a[2] * b[2])
RMul(a, b) == Rat(a[1] * b[1], a[2] * b[2])
\* a / b for b # 0
RDiv(a, b) == Rat(a[1] * b[2], a[2] * b[1])
RLe(a, b) == a[1] * b[2] <= b[1] * a[2]
RLt(a, b) == a[1] * b[2] < b[1] * a[2]
RMin(a, b) == IF RLe(a, b) THEN a ELSE b
RMax(a, b) == IF RLe(a, b) THEN b ELSE a
RAbs(a) == <<Abs(a[1]), a[2]>>
Zero == FromInt(0)
Tenth == Rat(1, 10)

\* Python 3 int(round(q)): to the nearest integer, a tie to the even one
PyRound(q) ==
    LET fl == q[1] \div q[2]
        rem == q[1] % q[2]
    IN  IF 2 * rem < q[2] THEN fl
        ELSE IF 2 * rem > q[2] THEN fl + 1
        ELSE IF fl % 2 = 0 THEN fl ELSE fl + 1

\* ndarray.clip(lo, hi)
Clip(x, lo, hi) == RMin(RMax(x, lo), hi)

---------------------------------------------------------------------------
(* YOLO_ONNX._letterbox *)

\* r = min(new_shape[0] / shape[0], new_shape[1] / shape[1])
LetterboxRatio(shape, new_shape) ==
    RMin(Rat(new_shape[1], shape[1]), Rat(new_shape[2], shape[2]))

\* new_unpad = (int(round(shape[1] * r)), int(round(shape[0] * r))): <<width, height>>
NewUnpad(shape, new_shape) ==
    LET r == LetterboxRatio(shape, new_shape)
    IN  <<PyRound(RMul(FromInt(shape[2]), r)), PyRound(RMul(FromInt(shape[1]), r))>>

\* cv2.resize(img, dsize): raises cv2.error when dsize has a zero side
\* (an empty dsize falls back on fx = fy = 0, which resize rejects)
ResizeRaises(dsize) == dsize[1] <= 0 \/ dsize[2] <= 0

\* top, bottom = int(round(dh - 0.1)), int(round(dh + 0.1)) with dh the halved padding
PadBefore(d) == PyRound(RSub(d, Tenth))
\* the second border rounded like the first
PadAfterLikeBefore(d) == PyRound(RSub(d, Tenth))
PadAfter(d) == PyRound(RAdd(d, Tenth))

\* the whole of _letterbox(img, new_shape) for an image of shape <<h, w>>:
\* what it returns (the canvas's rows and cols) or that it raised
Letterbox(shape, new_shape) ==
    LET r == LetterboxRatio(shape, new_shape)
        new_unpad == NewUnpad(shape, new_shape)
        dw == RDiv(FromInt(new_shape[2] - new_unpad[1]), FromInt(2))
        dh == RDiv(FromInt(new_shape[1] - new_unpad[2]), FromInt(2))
        resize == <<shape[2], shape[1]>> # new_unpad
        top == PadBefore(dh)
        bottom == PadAfter(dh)
        left == PadBefore(dw)
        right == PadAfter(dw)
    IN  IF resize /\ ResizeRaises(new_unpad)
        THEN [raised |-> TRUE, ratio |-> r, new_unpad |-> new_unpad,
              top |-> 0, bottom |-> 0, left |-> 0, right |-> 0, rows |-> 0, cols |-> 0]
        ELSE [raised |-> FALSE, ratio |-> r, new_unpad |-> new_unpad,
              top |-> top, bottom |-> bottom, left |-> left, right |-> right,
              \* cv2.copyMakeBorder adds the four borders to the resized image
              rows |-> new_unpad[2] + top + bottom,
              cols |-> new_unpad[1] + left + right]

---------------------------------------------------------------------------
(* YOLO_ONNX._scale_boxes *)

\* gain = min(self.input_height / orig_shape[0], self.input_width / orig_shape[1])
Gain(orig_shape, ih, iw) == RMin(Rat(ih, orig_shape[1]), Rat(iw, orig_shape[2]))

\* pad_x = (self.input_width - orig_shape[1] * gain) / 2
PadX(orig_shape, ih, iw) ==
    RDiv(RSub(FromInt(iw), RMul(FromInt(orig_shape[2]), Gain(orig_shape, ih, iw))), FromInt(2))

\* the vertical padding in all, not the half that lies above the image
PadYUnhalved(orig_shape, ih, iw) ==
    RSub(FromInt(ih), RMul(FromInt(orig_shape[1]), Gain(orig_shape, ih, iw)))

\* pad_y = (self.input_height - orig_shape[0] * gain) / 2
PadY(orig_shape, ih, iw) ==
    RDiv(RSub(FromInt(ih), RMul(FromInt(orig_shape[1]), Gain(orig_shape, ih, iw))), FromInt(2))

\* the two steps in the other order: divide by gain, then take the padding off
ScaleBoxUnscaleFirst(b, orig_shape, ih, iw) ==
    LET gain == Gain(orig_shape, ih, iw)
        pad_x == PadX(orig_shape, ih, iw)
        pad_y == PadY(orig_shape, ih, iw)
        w == FromInt(orig_shape[2])
        h == FromInt(orig_shape[1])
    IN  <<Clip(RSub(RDiv(b[1], gain), pad_x), Zero, w),
          Clip(RSub(RDiv(b[2], gain), pad_y), Zero, h),
          Clip(RSub(RDiv(b[3], gain), pad_x), Zero, w),
          Clip(RSub(RDiv(b[4], gain), pad_y), Zero, h)>>

\* one row of boxes through _scale_boxes: unpad, divide by gain, clip
ScaleBox(b, orig_shape, ih, iw) ==
    LET gain == Gain(orig_shape, ih, iw)
        pad_x == PadX(orig_shape, ih, iw)
        pad_y == PadY(orig_shape, ih, iw)
        w == FromInt(orig_shape[2])
        h == FromInt(orig_shape[1])
    IN  <<Clip(RDiv(RSub(b[1], pad_x), gain), Zero, w),
          Clip(RDiv(RSub(b[2], pad_y), gain), Zero, h),
          Clip(RDiv(RSub(b[3], pad_x), gain), Zero, w),
          Clip(RDiv(RSub(b[4], pad_y), gain), Zero, h)>>

\* _scale_boxes(boxes, orig_shape)
ScaleBoxes(boxes, orig_shape, ih, iw) ==
    [k \in 1..Len(boxes) |-> ScaleBox(boxes[k], orig_shape, ih, iw)]

\* Where _letterbox puts the original pixel position (x, y): the image is resized by
\* the ratio and the borders `left` and `top` are added in front of it.
ToCanvas(b, out) ==
    <<RAdd(RMul(b[1], out.ratio), FromInt(out.left)),
      RAdd(RMul(b[2], out.ratio), FromInt(out.top)),
      RAdd(RMul(b[3], out.ratio), FromInt(out.left)),
      RAdd(RMul(b[4], out.ratio), FromInt(out.top))>>

---------------------------------------------------------------------------
(* Values shared by the model object and its callers *)

\* A Python str is a sequence of characters; a character is its lower-case form and
\* whether it is upper case.  Lit writes a lower-case literal.
Lit(s) == [i \in 1..Len(s) |-> [ch |-> s[i], up |-> FALSE]]

\* YOLO_ONNX.COCO_NAMES, cut to its first two entries (the table has 80)
COCO_NAMES ==
    [k \in 0..1 |-> IF k = 0 THEN Lit(<<"p", "e", "r", "s", "o", "n">>)
                            ELSE Lit(<<"b", "i", "c", "y", "c", "l", "e">>)]

\* a names attribute that was never set
NoNames == [k \in {} |-> <<>>]

\* A numpy image or tensor: shape <<rows, cols>>, the colour each channel position
\* holds, the largest pixel value of its dtype (255 for uint8, 1 for the normalised
\* float32) and the layout of its axes.
NoImage == [shape |-> <<0, 0>>, ch |-> <<>>, maxval |-> 0, layout |-> "none"]
BGR == <<"B", "G", "R">>
RGB == <<"R", "G", "B">>

\* what session.run did: raised, or returned the rows of the raw output
NoEngine == [ok |-> FALSE, rows |-> <<>>]

NoFile == [exists |-> FALSE, height |-> 0, width |-> 0]
NoArgs == [kind |-> "none", readable |-> FALSE, image |-> NoImage,
           conf |-> 0, iou |-> Zero, imgsz |-> 0, engine |-> NoEngine]
NoResult == [boxes |-> <<>>, names |-> NoNames, orig_shape |-> <<0, 0>>, obb |-> "None"]
NoRet == [error |-> "none", ran |-> FALSE, canvas |-> <<0, 0>>,
         tensor |-> NoImage, source |-> NoImage, result |-> NoResult]
NoEvent == [body |-> "none", image |-> "none", pil |-> NoImage, conf |-> 0, iou |-> Zero,
            engine |-> NoEngine]
NoResp == [statusCode |-> 0, detections |-> <<>>, count |-> 0, error |-> "none"]
NoStats == [called |-> FALSE, error |-> "none", vehicles |-> <<>>, total |-> 0,
            wrote |-> FALSE]
NoBatchArgs == [image_paths |-> <<>>, dates |-> <<>>, model_path |-> "none"]
NoBatchOut == [annotated_paths |-> <<>>, counts |-> <<>>, details |-> <<>>]
NoLabelOut == [is_vehicle_label |-> FALSE, filter_vehicle_detections |-> FALSE,
               run_yolo11_obb_single |-> FALSE]

\* the attributes __init__ sets besides input_height and input_width
SessionLoaded ==
    /\ session = "InferenceSession"
    /\ input_name = "images"
    /\ output_names = <<"output0">>
    /\ names = COCO_NAMES

\* no YOLO_ONNX object has been constructed
SessionNone ==
    /\ session = "None"
    /\ input_name = "None"
    /\ output_names = <<>>
    /\ names = NoNames

PrIdle ==
    /\ model_file = NoFile
    /\ pr_pc = "idle"
    /\ pr_args = NoArgs
    /\ pr_ret = NoRet
    /\ pr_source = NoImage
    /\ lh_event = NoEvent
    /\ lh_resp = NoResp
    /\ ac_stats = NoStats

BtIdle ==
    /\ bt_pc = "idle"
    /\ bt_args = NoBatchArgs
    /\ bt_i = 0
    /\ bt_model = "None"
    /\ bt_out = NoBatchOut
    /\ bt_files = {}
    /\ bt_error = "none"
    /\ bt_infer = 0

LblIdle ==
    /\ lbl_pc = "idle"
    /\ lbl_name = <<>>
    /\ lbl_out = NoLabelOut

---------------------------------------------------------------------------
(* Letterbox an image, then map a box of it to the canvas and back *)

CanvasDims == (MaxCanvas - 1)..MaxCanvas
ImageDims == 1..MaxImg
NoOut == [raised |-> FALSE, ratio |-> Zero, new_unpad |-> <<0, 0>>,
          top |-> 0, bottom |-> 0, left |-> 0, right |-> 0, rows |-> 0, cols |-> 0]
NoBox == <<Zero, Zero, Zero, Zero>>

\* Each specification below exercises one part of the pipeline; the state of the
\* parts it does not call stays at these values.
NmsIdle ==
    /\ nms_pc = "idle"
    /\ nms_boxes = <<>>
    /\ nms_scores = <<>>
    /\ nms_thr = Zero
    /\ nms_keep = <<>>
    /\ nms_keep2 = <<>>
    /\ nms_rerun = <<>>

PpIdle ==
    /\ pp_outputs = <<>>
    /\ pp_orig_shape = <<1, 1>>
    /\ pp_iou = Zero
    /\ pp_runs = {}

LbIdle ==
    /\ lb_pc = "idle"
    /\ lb_shape = <<1, 1>>
    /\ lb_out = NoOut
    /\ lb_box = NoBox
    /\ lb_back = NoBox

InitLetterbox ==
    /\ input_height \in CanvasDims
    /\ input_width \in CanvasDims
    /\ lb_pc = "loaded"
    /\ lb_shape \in ImageDims \X ImageDims
    /\ lb_out = NoOut
    /\ lb_box = NoBox
    /\ lb_back = NoBox
    /\ NmsIdle
    /\ PpIdle
    /\ SessionLoaded
    /\ PrIdle
    /\ BtIdle
    /\ LblIdle

\* preprocess: img = self._letterbox(image, (self.input_height, self.input_width))
LetterboxCall ==
    /\ lb_pc = "loaded"
    /\ lb_out' = Letterbox(lb_shape, <<input_height, input_width>>)
    /\ lb_pc' = IF lb_out'.raised THEN "raised" ELSE "letterboxed"
    /\ UNCHANGED <<lb_shape, lb_box, lb_back>>
    /\ UNCHANGED modelVars
    /\ UNCHANGED prVars
    /\ UNCHANGED btVars
    /\ UNCHANGED lblVars
    /\ UNCHANGED nmsVars
    /\ UNCHANGED ppVars

\* the pixel positions a box corner is drawn from along a side of n pixels: all of
\* them for a small image, the ends and two positions between for a camera frame
BoxGrid(n) == IF n <= MaxImg THEN 0..n ELSE {0, n \div 4, n \div 2, n}

\* a box of the original image, on the canvas, given to _scale_boxes
ScaleBoxesCall ==
    /\ lb_pc = "letterboxed"
    /\ \E x1 \in BoxGrid(lb_shape[2]), y1 \in BoxGrid(lb_shape[1]) :
         \E x2 \in {x \in BoxGrid(lb_shape[2]) : x >= x1},
            y2 \in {y \in BoxGrid(lb_shape[1]) : y >= y1} :
            /\ lb_box' = <<FromInt(x1), FromInt(y1), FromInt(x2), FromInt(y2)>>
            /\ lb_back' = ScaleBoxes(<<ToCanvas(lb_box', lb_out)>>, lb_shape,
                                     input_height, input_width)[1]
    /\ lb_pc' = "scaled"
    /\ UNCHANGED <<lb_shape, lb_out>>
    /\ UNCHANGED modelVars
    /\ UNCHANGED prVars
    /\ UNCHANGED btVars
    /\ UNCHANGED lblVars
    /\ UNCHANGED nmsVars
    /\ UNCHANGED ppVars

NextLetterbox == LetterboxCall \/ ScaleBoxesCall

SpecLetterbox == InitLetterbox /\ [][NextLetterbox]_vars

\* The same two calls on camera frames, for a model that declares a 640x640 input
\* (shapes are <<height, width>>).
Frame720p == <<720, 1280>>
ScenarioCanvas == <<640, 640>>
ScenarioShapes == {Frame720p, <<1280, 720>>, <<1080, 1920>>, <<640, 640>>}

InitScenario ==
    /\ input_height = ScenarioCanvas[1]
    /\ input_width = ScenarioCanvas[2]
    /\ lb_pc = "loaded"
    /\ lb_shape \in ScenarioShapes
    /\ lb_out = NoOut
    /\ lb_box = NoBox
    /\ lb_back = NoBox
    /\ NmsIdle
    /\ PpIdle
    /\ SessionLoaded
    /\ PrIdle
    /\ BtIdle
    /\ LblIdle

SpecScenario == InitScenario /\ [][NextLetterbox]_vars

---------------------------------------------------------------------------
(* Claims about _letterbox and _scale_boxes *)

\* C1: for every image with height >= 1 and width >= 1 and every target, _letterbox
\* returns a canvas of exactly target_h rows and target_w columns (it does not raise).
C1_LetterboxExactDims ==
    lb_pc # "loaded" =>
        /\ ~lb_out.raised
        /\ lb_out.rows = input_height
        /\ lb_out.cols = input_width

\* C7: the pad_x, pad_y and gain of _scale_boxes equal the left and top borders and
\* the ratio of _letterbox for the same image and canvas.
C7_SamePadding ==
    lb_pc = "letterboxed" =>
        /\ PadX(lb_shape, input_height, input_width) = FromInt(lb_out.left)
        /\ PadY(lb_shape, input_height, input_width) = FromInt(lb_out.top)
        /\ Gain(lb_shape, input_height, input_width) = lb_out.ratio

\* C16 as stated: a 1280x720 (width x height) image letterboxed to a 640x640 canvas
\* yields ratio = 0.5, pad_x = 0 and pad_y = 100.
C16_ScenarioPadY100 ==
    (lb_pc = "letterboxed" /\ lb_shape = Frame720p) =>
        /\ lb_out.ratio = Rat(1, 2)
        /\ Gain(lb_shape, input_height, input_width) = Rat(1, 2)
        /\ lb_out.left = 0
        /\ PadX(lb_shape, input_height, input_width) = Zero
        /\ lb_out.top = 100
        /\ PadY(lb_shape, input_height, input_width) = FromInt(100)

\* C16 amended: a 1280x720 (width x height) image letterboxed to a 640x640 canvas
\* yields ratio = 0.5, pad_x = 0 and pad_y = 140: the image is resized to 1280 x 360,
\* and the 280 rows left over are split into a top and a bottom border of 140 each.
C16_ScenarioPadY140 ==
    (lb_pc = "letterboxed" /\ lb_shape = Frame720p) =>
        /\ lb_out.ratio = Rat(1, 2)
        /\ Gain(lb_shape, input_height, input_width) = Rat(1, 2)
        /\ lb_out.new_unpad = <<640, 360>>
        /\ lb_out.left = 0
        /\ lb_out.right = 0
        /\ PadX(lb_shape, input_height, input_width) = Zero
        /\ lb_out.top = 140
        /\ lb_out.bottom = 140
        /\ PadY(lb_shape, input_height, input_width) = FromInt(140)

\* C16: the 1280x720 image has been letterboxed to the 640x640 canvas
C16_Witness ==
    /\ lb_pc = "letterboxed"
    /\ lb_shape = Frame720p
    /\ <<input_height, input_width>> = ScenarioCanvas
    /\ ~lb_out.raised
    /\ <<lb_out.rows, lb_out.cols>> = ScenarioCanvas

\* C21: whenever _letterbox gets as far as its borders, left + right is the target
\* width less the resized width and top + bottom the target height less the resized
\* height, exactly, and the right border is the left one or one more, the bottom
\* border the top one or one more.
C21_PaddingSplit ==
    lb_pc = "letterboxed" =>
        /\ input_width - lb_out.new_unpad[1] >= 0
        /\ input_height - lb_out.new_unpad[2] >= 0
        /\ lb_out.left + lb_out.right = input_width - lb_out.new_unpad[1]
        /\ lb_out.top + lb_out.bottom = input_height - lb_out.new_unpad[2]
        /\ lb_out.left >= 0
        /\ lb_out.top >= 0
        /\ lb_out.right - lb_out.left \in {0, 1}
        /\ lb_out.bottom - lb_out.top \in {0, 1}

\* C21 witness: a letterbox whose vertical padding is odd and more than one row, so
\* the bottom border is one row larger than a top border that is not empty
C21_Witness ==
    /\ lb_pc = "letterboxed"
    /\ lb_out.top >= 1
    /\ lb_out.bottom = lb_out.top + 1
    /\ lb_out.left = lb_out.right

\* C8: a box inside the image, placed on the canvas by the letterbox's ratio and its
\* left/top borders and given to _scale_boxes, comes back within 1 pixel per coordinate.
C8_RoundTrip ==
    lb_pc = "scaled" =>
        \A k \in 1..4 : RLe(RAbs(RSub(lb_back[k], lb_box[k])), FromInt(1))

---------------------------------------------------------------------------
(* YOLO_ONNX._nms *)

Range(f) == {f[k] : k \in DOMAIN f}

\* areas = (x2 - x1) * (y2 - y1)
Area(b) == RMul(RSub(b[3], b[1]), RSub(b[4], b[2]))

\* w = maximum(0.0, xx2 - xx1); h = maximum(0.0, yy2 - yy1); inter = w * h
Inter(a, b) ==
    LET xx1 == RMax(a[1], b[1])
        yy1 == RMax(a[2], b[2])
        xx2 == RMin(a[3], b[3])
        yy2 == RMin(a[4], b[4])
        w == RMax(Zero, RSub(xx2, xx1))
        h == RMax(Zero, RSub(yy2, yy1))
    IN  RMul(w, h)

\* the divisor of the IoU without the intersection taken off (counts it twice)
UnionAreaNoInter(a, b) == RAdd(Area(a), Area(b))

\* areas[i] + areas[order[1:]] - inter
UnionArea(a, b) == RSub(RAdd(Area(a), Area(b)), Inter(a, b))

\* iou = inter / union; the test `iou <= iou_threshold` of np.where.
\* A zero divisor gives the float NaN (0/0) or +Inf (x/0, x > 0), and
\* NaN <= t and +Inf <= t are both false: the box is dropped from `order`.
IouLe(a, b, thr) ==
    IF UnionArea(a, b) = Zero
    THEN FALSE
    ELSE RLe(RDiv(Inter(a, b), UnionArea(a, b)), thr)

\* The permutations of 1..n that sort `scores` ascending.  scores.argsort() uses
\* numpy's default kind, which is not stable: among equal scores any order may come out.
ArgsortResults(scores) ==
    LET n == Len(scores)
    IN  {p \in [1..n -> 1..n] :
            /\ \A i, j \in 1..n : i # j => p[i] # p[j]
            /\ \A i \in 1..n : \A j \in 1..n : i < j => scores[p[i]] <= scores[p[j]]}

\* order = scores.argsort()[::-1]
Reversed(p) == [k \in 1..Len(p) |-> p[Len(p) + 1 - k]]
ArgsortDescResults(scores) == {Reversed(p) : p \in ArgsortResults(scores)}

\* the while loop of _nms: keep order[0], drop from order[1:] every box whose
\* IoU with it fails `iou <= iou_threshold`
RECURSIVE NmsLoop(_, _, _, _)
NmsLoop(boxes, thr, order, keep) ==
    IF order = <<>>
    THEN keep
    ELSE LET i == Head(order)
             rest == SelectSeq(Tail(order), LAMBDA j : IouLe(boxes[i], boxes[j], thr))
         IN  NmsLoop(boxes, thr, rest, Append(keep, i))

\* _nms(boxes, scores, iou_threshold), given the order its argsort produced
Nms(boxes, thr, order) == NmsLoop(boxes, thr, order, <<>>)

---------------------------------------------------------------------------
(* Calls of _nms: once, once more on the same arguments, and on its own output *)

\* corner boxes on a small grid: x1 <= x2 in NmsGridX, y1 = 0, y2 = 1; the boxes
\* with x1 = x2 have zero area
NmsGridX == 0..MaxX
NmsBoxPool ==
    {<<FromInt(p[1]), Zero, FromInt(p[2]), FromInt(1)>> :
        p \in {q \in NmsGridX \X NmsGridX : q[1] <= q[2]}}
\* how many boxes _nms is called with
NmsCounts == 1..3
\* confidences in tenths
NmsScoreLevels == {8, 9}
NmsThresholds == {Rat(9, 20), Rat(1, 2)}

InitNms ==
    /\ input_height = MaxCanvas
    /\ input_width = MaxCanvas
    /\ LbIdle
    /\ PpIdle
    /\ SessionLoaded
    /\ PrIdle
    /\ BtIdle
    /\ LblIdle
    /\ nms_pc = "start"
    /\ \E n \in NmsCounts :
         /\ nms_boxes \in [1..n -> NmsBoxPool]
         /\ nms_scores \in [1..n -> NmsScoreLevels]
    /\ nms_thr \in NmsThresholds
    /\ nms_keep = <<>>
    /\ nms_keep2 = <<>>
    /\ nms_rerun = <<>>

\* indices = self._nms(boxes, scores, iou_threshold)
NmsCall ==
    /\ nms_pc = "start"
    /\ \E order \in ArgsortDescResults(nms_scores) :
         nms_keep' = Nms(nms_boxes, nms_thr, order)
    /\ nms_pc' = "done"
    /\ UNCHANGED <<nms_boxes, nms_scores, nms_thr, nms_keep2, nms_rerun>>
    /\ UNCHANGED modelVars
    /\ UNCHANGED prVars
    /\ UNCHANGED btVars
    /\ UNCHANGED lblVars
    /\ UNCHANGED lbVars
    /\ UNCHANGED ppVars

\* a second call with the same boxes, scores and threshold
NmsCallAgain ==
    /\ nms_pc = "done"
    /\ \E order \in ArgsortDescResults(nms_scores) :
         nms_keep2' = Nms(nms_boxes, nms_thr, order)
    /\ nms_pc' = "again"
    /\ UNCHANGED <<nms_boxes, nms_scores, nms_thr, nms_keep, nms_rerun>>
    /\ UNCHANGED modelVars
    /\ UNCHANGED prVars
    /\ UNCHANGED btVars
    /\ UNCHANGED lblVars
    /\ UNCHANGED lbVars
    /\ UNCHANGED ppVars

\* a call on boxes[keep], scores[keep]: the first call's output
NmsOnOutputCall ==
    /\ nms_pc = "done"
    /\ LET boxes2 == [k \in 1..Len(nms_keep) |-> nms_boxes[nms_keep[k]]]
           scores2 == [k \in 1..Len(nms_keep) |-> nms_scores[nms_keep[k]]]
       IN  \E order \in ArgsortDescResults(scores2) :
             nms_rerun' = Nms(boxes2, nms_thr, order)
    /\ nms_pc' = "rerun"
    /\ UNCHANGED <<nms_boxes, nms_scores, nms_thr, nms_keep, nms_keep2>>
    /\ UNCHANGED modelVars
    /\ UNCHANGED prVars
    /\ UNCHANGED btVars
    /\ UNCHANGED lblVars
    /\ UNCHANGED lbVars
    /\ UNCHANGED ppVars

NextNms == NmsCall \/ NmsCallAgain \/ NmsOnOutputCall

SpecNms == InitNms /\ [][NextNms]_vars

---------------------------------------------------------------------------
(* Claims about _nms *)

\* IoU as section 4.6 of the specification defines it: overlap over union, and 0
\* whenever one of the boxes has zero area
SpecIoU(a, b) ==
    IF Area(a) = Zero \/ Area(b) = Zero
    THEN Zero
    ELSE RDiv(Inter(a, b), RSub(RAdd(Area(a), Area(b)), Inter(a, b)))

\* Greedy NMS as the specification states it: visiting `order`, a box is kept if and
\* only if its IoU with every box kept before it is <= thr
RECURSIVE SpecGreedy(_, _, _, _)
SpecGreedy(boxes, thr, order, keep) ==
    IF order = <<>>
    THEN keep
    ELSE LET b == Head(order)
             ok == \A k \in Range(keep) : RLe(SpecIoU(boxes[k], boxes[b]), thr)
         IN  SpecGreedy(boxes, thr, Tail(order), IF ok THEN Append(keep, b) ELSE keep)

\* the descending-confidence order that visits equal confidences by ascending index
AscendingTieOrder(scores) ==
    CHOOSE order \in ArgsortDescResults(scores) :
        \A p \in 1..Len(order) : \A q \in 1..Len(order) :
            (p < q /\ scores[order[p]] = scores[order[q]]) => order[p] < order[q]

\* C2: _nms returns its indices in descending confidence, and what it returns is the
\* outcome of visiting the boxes in descending confidence and keeping a box if and
\* only if its IoU with every box kept before it is <= iou_threshold.
C2_GreedyNms ==
    nms_pc # "start" =>
        /\ \A k \in 1..(Len(nms_keep) - 1) :
             nms_scores[nms_keep[k]] >= nms_scores[nms_keep[k + 1]]
        /\ \E order \in ArgsortDescResults(nms_scores) :
             nms_keep = SpecGreedy(nms_boxes, nms_thr, order, <<>>)

\* C3: _nms run on the boxes and scores a first run selected keeps all of them, and
\* no two boxes of the output have IoU > threshold.
C3_NmsIdempotent ==
    nms_pc = "rerun" =>
        /\ Range(nms_rerun) = 1..Len(nms_keep)
        /\ Len(nms_rerun) = Len(nms_keep)
        /\ \A i \in Range(nms_keep) : \A j \in Range(nms_keep) :
             i # j => RLe(SpecIoU(nms_boxes[i], nms_boxes[j]), nms_thr)

\* C3 witness: the first run suppressed a box and kept several, two of them with an
\* IoU equal to the threshold, and the rerun is done
C3_Witness ==
    /\ nms_pc = "rerun"
    /\ Len(nms_keep) >= 2
    /\ Len(nms_keep) < Len(nms_boxes)
    /\ \E i \in Range(nms_keep) : \E j \in Range(nms_keep) :
         i # j /\ SpecIoU(nms_boxes[i], nms_boxes[j]) = nms_thr

\* C4: two runs on identical boxes, scores and threshold return the same list, and
\* boxes of equal confidence are visited in ascending order of their index.
C4_NmsDeterministic ==
    /\ nms_pc = "again" => nms_keep2 = nms_keep
    /\ nms_pc # "start" =>
         nms_keep = Nms(nms_boxes, nms_thr, AscendingTieOrder(nms_scores))

\* C6: a zero-area box is never suppressed and never suppresses: every zero-area box
\* is kept, and every suppressed box overlaps a kept box of positive area, of at
\* least its confidence, by more than the threshold.
C6_ZeroAreaBox ==
    nms_pc # "start" =>
        /\ \A b \in 1..Len(nms_boxes) :
             Area(nms_boxes[b]) = Zero => b \in Range(nms_keep)
        /\ \A b \in (1..Len(nms_boxes)) \ Range(nms_keep) :
             \E k \in Range(nms_keep) :
                /\ nms_scores[k] >= nms_scores[b]
                /\ RLt(Zero, Area(nms_boxes[k]))
                /\ RLt(nms_thr, SpecIoU(nms_boxes[k], nms_boxes[b]))

---------------------------------------------------------------------------
(* YOLO_ONNX.postprocess *)

\* An anchor is one row of the transposed raw output:
\* [cx, cy, w, h: canvas pixels (integers here), scores: one score per class (tenths)]

\* class_scores = np.max(scores, axis=1)
ClassScore(a) == CHOOSE m \in Range(a.scores) : \A v \in Range(a.scores) : v <= m

\* an argmax that returns the last index of the maximum
ClassIdLast(a) ==
    (CHOOSE c \in 1..Len(a.scores) :
        /\ a.scores[c] = ClassScore(a)
        /\ \A e \in (c + 1)..Len(a.scores) : a.scores[e] # ClassScore(a)) - 1

\* class_ids = np.argmax(scores, axis=1): the first index of the maximum, 0-based
ClassId(a) ==
    (CHOOSE c \in 1..Len(a.scores) :
        /\ a.scores[c] = ClassScore(a)
        /\ \A e \in 1..(c - 1) : a.scores[e] # ClassScore(a)) - 1

\* a mask that also lets through a score equal to the threshold
ConfMaskGe(score, conf_threshold) == score >= conf_threshold

\* mask = class_scores > conf_threshold
ConfMask(score, conf_threshold) == score > conf_threshold

\* boxes[mask], class_scores[mask], class_ids[mask]: the anchors that pass, in order
Filtered(outputs, conf_threshold) ==
    SelectSeq(outputs, LAMBDA a : ConfMask(ClassScore(a), conf_threshold))

\* x1 = x_center - width / 2, y1 = y_center - height / 2, x2 = ..., y2 = ...
Xyxy(a) ==
    <<RSub(FromInt(a.cx), Rat(a.w, 2)), RSub(FromInt(a.cy), Rat(a.h, 2)),
      RAdd(FromInt(a.cx), Rat(a.w, 2)), RAdd(FromInt(a.cy), Rat(a.h, 2))>>

\* class_scores of the anchors that pass: the scores _nms sorts
FilteredScores(outputs, conf_threshold) ==
    LET f == Filtered(outputs, conf_threshold)
    IN  [k \in 1..Len(f) |-> ClassScore(f[k])]

\* a postprocess that falls back on the first anchor when the mask leaves none
PostprocessTopOne(outputs, orig_shape, conf_threshold, iou_threshold, ih, iw, order) ==
    LET f == IF Len(Filtered(outputs, conf_threshold)) = 0
             THEN SubSeq(outputs, 1, 1)
             ELSE Filtered(outputs, conf_threshold)
        boxes_xyxy == ScaleBoxes([k \in 1..Len(f) |-> Xyxy(f[k])], orig_shape, ih, iw)
        indices == Nms(boxes_xyxy, iou_threshold, IF Len(order) = 0 THEN <<1>> ELSE order)
    IN  IF Len(f) = 0
        THEN <<>>
        ELSE [k \in 1..Len(indices) |->
                [box |-> boxes_xyxy[indices[k]],
                 conf |-> ClassScore(f[indices[k]]),
                 cls |-> ClassId(f[indices[k]])]]

\* postprocess(outputs, orig_shape, conf_threshold, iou_threshold), given the order
\* the argsort inside _nms produced: the rows [x1, y1, x2, y2, conf, cls]
Postprocess(outputs, orig_shape, conf_threshold, iou_threshold, ih, iw, order) ==
    LET f == Filtered(outputs, conf_threshold)
        boxes_xyxy == ScaleBoxes([k \in 1..Len(f) |-> Xyxy(f[k])], orig_shape, ih, iw)
        indices == Nms(boxes_xyxy, iou_threshold, order)
    IN  IF Len(f) = 0
        THEN <<>>
        ELSE [k \in 1..Len(indices) |->
                [box |-> boxes_xyxy[indices[k]],
                 conf |-> ClassScore(f[indices[k]]),
                 cls |-> ClassId(f[indices[k]])]]

---------------------------------------------------------------------------
(* Calls of postprocess on one raw output *)

\* anchor geometry on the canvas, in canvas pixels
AnchorCx == {1, 2}
AnchorCy == {2}
AnchorW == {2, 4}
AnchorH == {2}
\* class scores in tenths
ScoreLevels == {2, 3}
\* conf_threshold in tenths
ConfThresholds == {1, 2, 3}
\* iou_threshold: the default 0.45 of postprocess and predict
IouThresholds == {Rat(9, 20)}
\* original image shapes <<h, w>>: landscape, portrait, and the canvas's own
OrigShapes == {<<MaxCanvas \div 2, 2 * MaxCanvas>>, <<2 * MaxCanvas, MaxCanvas>>,
               <<MaxCanvas, MaxCanvas>>}
\* how many anchors the raw output has
AnchorCounts == 1..2

Anchors ==
    [cx : AnchorCx, cy : AnchorCy, w : AnchorW, h : AnchorH,
     scores : [1..NumClasses -> ScoreLevels]]

InitPostprocess ==
    /\ input_height = MaxCanvas
    /\ input_width = MaxCanvas
    /\ LbIdle
    /\ NmsIdle
    /\ SessionLoaded
    /\ PrIdle
    /\ BtIdle
    /\ LblIdle
    /\ \E n \in AnchorCounts : pp_outputs \in [1..n -> Anchors]
    /\ pp_orig_shape \in OrigShapes
    /\ pp_iou \in IouThresholds
    /\ pp_runs = {}

\* detections = self.postprocess(outputs, orig_shape, conf, iou)
PostprocessCall ==
    /\ Cardinality(pp_runs) < MaxCalls
    /\ \E conf \in ConfThresholds :
         \E order \in ArgsortDescResults(FilteredScores(pp_outputs, conf)) :
            pp_runs' = pp_runs \cup
                {[conf |-> conf,
                  dets |-> Postprocess(pp_outputs, pp_orig_shape, conf, pp_iou,
                                       input_height, input_width, order)]}
    /\ UNCHANGED <<pp_outputs, pp_orig_shape, pp_iou>>
    /\ UNCHANGED modelVars
    /\ UNCHANGED prVars
    /\ UNCHANGED btVars
    /\ UNCHANGED lblVars
    /\ UNCHANGED lbVars
    /\ UNCHANGED nmsVars

NextPostprocess == PostprocessCall

SpecPostprocess == InitPostprocess /\ [][NextPostprocess]_vars

---------------------------------------------------------------------------
(* Claims about postprocess *)

\* C5: for the same raw output, shape and IoU threshold and conf thresholds t1 < t2,
\* every detection returned at t2 is also returned at t1.
C5_ConfMonotone ==
    \A r1 \in pp_runs : \A r2 \in pp_runs :
        r1.conf < r2.conf => Range(r2.dets) \subseteq Range(r1.dets)

\* The box section 4.3 and 4.5 of the specification give an anchor: corner form, the
\* padding taken off, divided by the ratio, clipped to the image.
SpecBox(a, orig_shape, ih, iw) ==
    LET ratio == RMin(Rat(ih, orig_shape[1]), Rat(iw, orig_shape[2]))
        pad_x == RDiv(RSub(FromInt(iw), RMul(FromInt(orig_shape[2]), ratio)), FromInt(2))
        pad_y == RDiv(RSub(FromInt(ih), RMul(FromInt(orig_shape[1]), ratio)), FromInt(2))
        X(x) == RMax(Zero, RMin(FromInt(orig_shape[2]), RDiv(RSub(x, pad_x), ratio)))
        Y(y) == RMax(Zero, RMin(FromInt(orig_shape[1]), RDiv(RSub(y, pad_y), ratio)))
    IN  <<X(Rat(2 * a.cx - a.w, 2)), Y(Rat(2 * a.cy - a.h, 2)),
          X(Rat(2 * a.cx + a.w, 2)), Y(Rat(2 * a.cy + a.h, 2))>>

\* C9: every detection postprocess returns is an anchor's box in corner form, unpadded,
\* divided by the ratio and clipped, and lies within 0..orig_w by 0..orig_h.
C9_DetectionBox ==
    \A r \in pp_runs : \A d \in Range(r.dets) :
        /\ \E a \in Range(pp_outputs) :
             /\ d.box = SpecBox(a, pp_orig_shape, input_height, input_width)
             /\ d.conf = ClassScore(a)
             /\ d.cls = ClassId(a)
        /\ RLe(Zero, d.box[1]) /\ RLe(d.box[1], FromInt(pp_orig_shape[2]))
        /\ RLe(Zero, d.box[3]) /\ RLe(d.box[3], FromInt(pp_orig_shape[2]))
        /\ RLe(Zero, d.box[2]) /\ RLe(d.box[2], FromInt(pp_orig_shape[1]))
        /\ RLe(Zero, d.box[4]) /\ RLe(d.box[4], FromInt(pp_orig_shape[1]))

\* C9 witness: a detection of an image with ratio # 1 and padding, one of whose
\* corners was clipped and one not
C9_Witness ==
    /\ Gain(pp_orig_shape, input_height, input_width) # FromInt(1)
    /\ PadX(pp_orig_shape, input_height, input_width) # Zero
    /\ \E r \in pp_runs : \E d \in Range(r.dets) :
         /\ d.box[1] = Zero
         /\ RLt(Zero, d.box[2])
         /\ RLt(d.box[3], FromInt(pp_orig_shape[2]))
         /\ RLt(d.box[1], d.box[3])

\* C10: every detection postprocess returns has confidence > conf_threshold; an
\* anchor whose best class score equals the threshold is dropped.
C10_StrictConfFilter ==
    \A r \in pp_runs :
        /\ \A d \in Range(r.dets) : d.conf > r.conf
        /\ Len(r.dets) <=
             Cardinality({k \in 1..Len(pp_outputs) : ClassScore(pp_outputs[k]) > r.conf})

\* C10 witness: a call that returned a detection while another anchor's best score
\* was exactly the threshold
C10_Witness ==
    \E r \in pp_runs :
        /\ r.dets # <<>>
        /\ \E a \in Range(pp_outputs) : ClassScore(a) = r.conf

\* C11: every detection carries, for the anchor its box comes from, the maximum of
\* that anchor's class scores as confidence and the lowest index attaining that
\* maximum as class id; no other class of the anchor appears.
C11_BestClassLowestIndex ==
    \A r \in pp_runs : \A d \in Range(r.dets) :
        \E a \in Range(pp_outputs) :
            /\ d.box = ScaleBox(Xyxy(a), pp_orig_shape, input_height, input_width)
            /\ d.conf \in Range(a.scores)
            /\ \A c \in 1..NumClasses : a.scores[c] <= d.conf
            /\ d.cls \in 0..(NumClasses - 1)
            /\ a.scores[d.cls + 1] = d.conf
            /\ \A c \in 1..d.cls : a.scores[c] < d.conf

\* C11 witness: one call returned two detections, one of an anchor whose classes tie
\* for the maximum (class id 0) and one of an anchor whose best class is not the first
C11_Witness ==
    \E r \in pp_runs :
        /\ \E d \in Range(r.dets) : \E a \in Range(pp_outputs) :
             /\ d.box = ScaleBox(Xyxy(a), pp_orig_shape, input_height, input_width)
             /\ \A c \in 1..NumClasses : a.scores[c] = d.conf
             /\ d.cls = 0
        /\ \E d \in Range(r.dets) : d.cls > 0

---------------------------------------------------------------------------
(* YOLO_ONNX.__init__, preprocess and predict; ONNXDetectionResult, ONNXBoxes *)

\* the model object as the methods see it
Self ==
    [session |-> session, input_name |-> input_name, output_names |-> output_names,
     input_height |-> input_height, input_width |-> input_width, names |-> names]

\* cv2.cvtColor(img, cv2.COLOR_BGR2RGB): the first and the third channel change places
CvtColorBGR2RGB(ch) == <<ch[3], ch[2], ch[1]>>

\* The exception _letterbox raises for an image of this shape, "none" if it returns:
\* the division by shape[0] or shape[1] of line 187, or the cv2.resize of line 198.
LetterboxError(shape, new_shape) ==
    IF shape[1] = 0 \/ shape[2] = 0 THEN "ZeroDivisionError"
    ELSE IF <<shape[2], shape[1]>> # NewUnpad(shape, new_shape)
            /\ ResizeRaises(NewUnpad(shape, new_shape))
    THEN "cv2.error"
    ELSE "none"

\* The tensor preprocess makes of the letterboxed canvas lb: BGR -> RGB, / 255.0,
\* HWC -> CHW, batch axis.  Every step binds a new array to the local name img.
TensorOf(image, lb) ==
    [shape |-> <<lb.rows, lb.cols>>, ch |-> CvtColorBGR2RGB(image.ch), maxval |-> 1,
     layout |-> "NCHW"]

\* a preprocess whose colour conversion writes into the array it was given
PreprocessToInPlace(image, new_shape) ==
    [error |-> LetterboxError(image.shape, new_shape),
     canvas |-> new_shape,
     tensor |-> IF LetterboxError(image.shape, new_shape) # "none"
                THEN NoImage
                ELSE TensorOf(image, Letterbox(image.shape, new_shape)),
     orig_shape |-> image.shape,
     source |-> [image EXCEPT !.ch = CvtColorBGR2RGB(image.ch)]]

\* The body of preprocess for the canvas new_shape: what it raised, the canvas it
\* asked _letterbox for, the tensor and orig_shape it returns, and `source`, the array
\* the caller passed as it is after the call (_letterbox's cv2.resize and
\* cv2.copyMakeBorder return new arrays, and so does every later step).
PreprocessTo(image, new_shape) ==
    [error |-> LetterboxError(image.shape, new_shape),
     canvas |-> new_shape,
     tensor |-> IF LetterboxError(image.shape, new_shape) # "none"
                THEN NoImage
                ELSE TensorOf(image, Letterbox(image.shape, new_shape)),
     orig_shape |-> image.shape,
     source |-> image]

\* a preprocess that letterboxes to a fixed square canvas
PreprocessFixedCanvas(self, image) == PreprocessTo(image, <<MaxCanvas, MaxCanvas>>)

\* preprocess(image): img = self._letterbox(image, (self.input_height, self.input_width))
Preprocess(self, image) == PreprocessTo(image, <<self.input_height, self.input_width>>)

\* ONNXDetectionResult(boxes_data, names, orig_shape); boxes is the ONNXBoxes that
\* holds the rows (postprocess never returns None)
ONNXDetectionResult(boxes_data, table, orig_shape) ==
    [boxes |-> boxes_data, names |-> table, orig_shape |-> orig_shape, obb |-> "None"]

\* ONNXBoxes.__len__, .xyxy, .conf, .cls and ONNXDetectionResult.__len__
BoxesLen(boxes) == Len(boxes)
BoxesXyxy(boxes) == [k \in 1..Len(boxes) |-> boxes[k].box]
BoxesConf(boxes) == [k \in 1..Len(boxes) |-> boxes[k].conf]
BoxesCls(boxes) == [k \in 1..Len(boxes) |-> boxes[k].cls]
ResultLen(result) == BoxesLen(result.boxes)

\* predict from `input_tensor, orig_shape = self.preprocess(image)` on, pre being
\* what preprocess did: session.run, postprocess, the result object
PredictFrom(self, args, pre, order) ==
    IF pre.error # "none"
    THEN [NoRet EXCEPT !.error = pre.error, !.canvas = pre.canvas, !.source = pre.source]
    ELSE IF ~args.engine.ok
    THEN \* session.run raised: the exception goes to the caller
         [NoRet EXCEPT !.error = "InferenceError", !.ran = TRUE, !.canvas = pre.canvas,
                       !.tensor = pre.tensor, !.source = pre.source]
    ELSE [error |-> "none", ran |-> TRUE, canvas |-> pre.canvas,
          tensor |-> pre.tensor, source |-> pre.source,
          result |-> ONNXDetectionResult(
                        Postprocess(args.engine.rows, pre.orig_shape, args.conf, args.iou,
                                    self.input_height, self.input_width, order),
                        self.names, pre.orig_shape)]

\* predict(source, conf, iou, imgsz), given what session.run does (args.engine) and
\* the order the argsort inside _nms produces
Predict(self, args, order) ==
    IF args.kind = "path" /\ ~args.readable
    THEN \* cv2.imread returned None
         [NoRet EXCEPT !.error = "ValueError"]
    ELSE PredictFrom(self, args, Preprocess(self, args.image), order)

---------------------------------------------------------------------------
(* lambda_handler of lambda/handler.py *)

\* the default of predict's imgsz parameter
DefaultImgsz == 640

\* int(x) of a float: the fraction is cut off
IntOf(q) == IF q[1] >= 0 THEN q[1] \div q[2] ELSE -((-q[1]) \div q[2])

\* model.predict(source=image_np, conf=conf_threshold, iou=iou_threshold, verbose=False)
\* with image_np = np.array(Image.open(...))
HandlerArgs(event) ==
    [kind |-> "array", readable |-> TRUE, image |-> event.pil, conf |-> event.conf,
     iou |-> event.iou, imgsz |-> DefaultImgsz, engine |-> event.engine]

\* the loop over result.boxes that builds the `detections` list
FormatDetections(result, table) ==
    [k \in 1..BoxesLen(result.boxes) |->
        [class |-> table[result.boxes[k].cls],
         confidence |-> result.boxes[k].conf,
         bbox |-> <<IntOf(result.boxes[k].box[1]), IntOf(result.boxes[k].box[2]),
                    IntOf(result.boxes[k].box[3]), IntOf(result.boxes[k].box[4])>>]]

\* a handler that tests the image field for absence only: an empty string goes on to
\* the decoder
LambdaHandlerImageIsNone(self, event, ret) ==
    IF event.body = "invalid"
    THEN [NoResp EXCEPT !.statusCode = 500, !.error = "JSONDecodeError"]
    ELSE IF event.body = "nonobject"
    THEN [NoResp EXCEPT !.statusCode = 500, !.error = "AttributeError"]
    ELSE IF event.image = "absent"
    THEN [NoResp EXCEPT !.statusCode = 400, !.error = "Missing 'image' field"]
    ELSE IF event.image \in {"empty", "undecodable"}
    THEN [NoResp EXCEPT !.statusCode = 500, !.error = "UnidentifiedImageError"]
    ELSE IF ret.error # "none"
    THEN [NoResp EXCEPT !.statusCode = 500, !.error = ret.error]
    ELSE IF \E k \in 1..BoxesLen(ret.result.boxes) :
                ret.result.boxes[k].cls \notin DOMAIN self.names
    THEN [NoResp EXCEPT !.statusCode = 500, !.error = "KeyError"]
    ELSE [statusCode |-> 200,
          detections |-> FormatDetections(ret.result, self.names),
          count |-> BoxesLen(ret.result.boxes),
          error |-> "none"]

\* lambda_handler(event, context): the response it returns, ret being what its
\* model.predict call did (when the handler gets that far).  Every exception inside
\* the try block is caught and answered with 500.
LambdaHandler(self, event, ret) ==
    IF event.body = "invalid"
    THEN [NoResp EXCEPT !.statusCode = 500, !.error = "JSONDecodeError"]
    ELSE IF event.body = "nonobject"
    THEN [NoResp EXCEPT !.statusCode = 500, !.error = "AttributeError"]
    ELSE IF event.image \in {"absent", "empty"}
    THEN [NoResp EXCEPT !.statusCode = 400, !.error = "Missing 'image' field"]
    ELSE IF event.image = "undecodable"
    THEN [NoResp EXCEPT !.statusCode = 500, !.error = "UnidentifiedImageError"]
    ELSE IF ret.error # "none"
    THEN [NoResp EXCEPT !.statusCode = 500, !.error = ret.error]
    ELSE IF \E k \in 1..BoxesLen(ret.result.boxes) :
                ret.result.boxes[k].cls \notin DOMAIN self.names
    THEN \* model.names[cls_id]
         [NoResp EXCEPT !.statusCode = 500, !.error = "KeyError"]
    ELSE [statusCode |-> 200,
          detections |-> FormatDetections(ret.result, self.names),
          count |-> BoxesLen(ret.result.boxes),
          error |-> "none"]

\* whether the handler gets as far as model.predict for this event
ReachesPredict(event) == event.body \in {"absent", "valid"} /\ event.image = "ok"

---------------------------------------------------------------------------
(* filter_vehicle_detections and annotate_and_count_image of detect.py *)

VEHICLE_CLASSES ==
    {Lit(<<"c", "a", "r">>), Lit(<<"m", "o", "t", "o", "r", "c", "y", "c", "l", "e">>),
     Lit(<<"b", "u", "s">>), Lit(<<"t", "r", "u", "c", "k">>),
     Lit(<<"b", "i", "c", "y", "c", "l", "e">>), Lit(<<"t", "r", "a", "i", "n">>)}

\* the rows of result.boxes whose class name is in vehicle_classes
VehicleRows(result, vehicle_classes) ==
    SelectSeq(result.boxes, LAMBDA d : result.names[d.cls] \in vehicle_classes)

\* filter_vehicle_detections(result, vehicle_classes): the list of
\* (cls_name, conf, x1, y1, x2, y2) it returns, or the KeyError of names[cls_id]
FilterVehicleDetections(result, vehicle_classes) ==
    IF BoxesLen(result.boxes) = 0
    THEN [error |-> "none", out |-> <<>>]
    ELSE IF \E k \in 1..BoxesLen(result.boxes) :
                result.boxes[k].cls \notin DOMAIN result.names
    THEN [error |-> "KeyError", out |-> <<>>]
    ELSE [error |-> "none",
          out |-> [k \in 1..Len(VehicleRows(result, vehicle_classes)) |->
                    [cls_name |-> result.names[VehicleRows(result, vehicle_classes)[k].cls],
                     conf |-> VehicleRows(result, vehicle_classes)[k].conf,
                     box |-> <<IntOf(VehicleRows(result, vehicle_classes)[k].box[1]),
                               IntOf(VehicleRows(result, vehicle_classes)[k].box[2]),
                               IntOf(VehicleRows(result, vehicle_classes)[k].box[3]),
                               IntOf(VehicleRows(result, vehicle_classes)[k].box[4])>>]]]

\* annotate_and_count_image(model, img_path, conf_thres), ret being what its
\* model.predict(source=str(img_path)) call did and vehicles what
\* filter_vehicle_detections made of the result: the stats it returns (and whether
\* it wrote the annotated copy), or the exception that leaves it
AnnotateAndCountImage(ret, vehicles) ==
    IF ret.error # "none"
    THEN [NoStats EXCEPT !.called = TRUE, !.error = ret.error]
    ELSE IF vehicles.error # "none"
    THEN [NoStats EXCEPT !.called = TRUE, !.error = vehicles.error]
    ELSE [called |-> TRUE, error |-> "none", vehicles |-> vehicles.out,
          total |-> Len(vehicles.out), wrote |-> TRUE]

---------------------------------------------------------------------------
(* A model object is constructed; predict and lambda_handler are called on it *)

\* the input shapes the model file may declare: <<height, width>>
ModelShapes == {<<MaxCanvas, MaxCanvas>>, <<MaxCanvas - 1, MaxCanvas>>}
ModelFiles ==
    {NoFile} \cup {[exists |-> TRUE, height |-> sh[1], width |-> sh[2]] : sh \in ModelShapes}

\* image shapes <<h, w>>: landscape, square, without rows, and a strip whose resized
\* height rounds to 0
PredictShapes == {<<MaxCanvas \div 2, 2 * MaxCanvas>>, <<MaxCanvas, MaxCanvas>>,
                  <<0, MaxCanvas>>, <<1, 2 * MaxCanvas>>}
HandlerShapes == {<<MaxCanvas \div 2, 2 * MaxCanvas>>, <<MaxCanvas, MaxCanvas>>}

\* cv2.imread gives BGR arrays, PIL gives RGB arrays; both uint8, rows x cols x channel
CvImage(shape) == [shape |-> shape, ch |-> BGR, maxval |-> 255, layout |-> "HWC"]
PilImage(shape) == [shape |-> shape, ch |-> RGB, maxval |-> 255, layout |-> "HWC"]

\* Raw outputs of a model file with one class more than the table has names: one
\* anchor, or two overlapping anchors of equal best score.
PredictAnchors ==
    [cx : {2}, cy : {2}, w : {2}, h : {2},
     scores : [1..(Cardinality(DOMAIN COCO_NAMES) + 1) -> ScoreLevels]]
TiedPair ==
    <<[cx |-> 2, cy |-> 2, w |-> 2, h |-> 2,
       scores |-> [c \in 1..(Cardinality(DOMAIN COCO_NAMES) + 1) |-> 3]],
      [cx |-> 2, cy |-> 2, w |-> 4, h |-> 2,
       scores |-> [c \in 1..(Cardinality(DOMAIN COCO_NAMES) + 1) |-> 3]]>>
EngineOutcomes ==
    {NoEngine} \cup {[ok |-> TRUE, rows |-> <<a>>] : a \in PredictAnchors}
               \cup {[ok |-> TRUE, rows |-> TiedPair]}

\* the arguments of a direct predict call: a path (the file readable or not) or an
\* array a caller read with cv2.imread
PredictSources ==
    {[kind |-> "path", readable |-> FALSE, image |-> NoImage]} \cup
    {[kind |-> "path", readable |-> TRUE, image |-> CvImage(sh)] : sh \in HandlerShapes} \cup
    {[kind |-> "array", readable |-> TRUE, image |-> CvImage(sh)] : sh \in PredictShapes}
PredictArgs ==
    {[kind |-> src.kind, readable |-> src.readable, image |-> src.image,
      conf |-> 2, iou |-> Rat(9, 20), imgsz |-> sz, engine |-> e] :
        src \in PredictSources, sz \in {DefaultImgsz, 2 * MaxCanvas}, e \in EngineOutcomes}

\* the predict calls of annotate_and_count_image: source=str(img_path), conf=conf_thres
AnnotateArgs ==
    {[kind |-> "path", readable |-> r, image |-> IF r THEN CvImage(<<MaxCanvas, MaxCanvas>>)
                                                  ELSE NoImage,
      conf |-> 2, iou |-> Rat(9, 20), imgsz |-> DefaultImgsz, engine |-> e] :
        r \in BOOLEAN, e \in EngineOutcomes}

\* the events of lambda_handler
HandlerEvents ==
    {[NoEvent EXCEPT !.body = b, !.image = "none"] : b \in {"invalid", "nonobject"}} \cup
    {[NoEvent EXCEPT !.body = b, !.image = i] :
        b \in {"absent", "valid"}, i \in {"absent", "empty", "undecodable"}} \cup
    {[body |-> b, image |-> "ok", pil |-> PilImage(sh), conf |-> c, iou |-> Rat(9, 20),
      engine |-> e] :
        b \in {"absent", "valid"}, sh \in HandlerShapes, c \in {2}, e \in EngineOutcomes}

InitPredict ==
    /\ input_height = 0
    /\ input_width = 0
    /\ SessionNone
    /\ model_file \in ModelFiles
    /\ pr_pc = "unloaded"
    /\ pr_args = NoArgs
    /\ pr_ret = NoRet
    /\ pr_source = NoImage
    /\ lh_event = NoEvent
    /\ lh_resp = NoResp
    /\ ac_stats = NoStats
    /\ LbIdle
    /\ NmsIdle
    /\ PpIdle
    /\ BtIdle
    /\ LblIdle

\* YOLO_ONNX(model_path): FileNotFoundError before anything else when the file is
\* missing; otherwise the session and the attributes read from it
YoloOnnxInit ==
    /\ pr_pc = "unloaded"
    /\ IF ~model_file.exists
       THEN /\ pr_pc' = "load_raised"
            /\ UNCHANGED modelVars
       ELSE /\ pr_pc' = "loaded"
            /\ session' = "InferenceSession"
            /\ input_name' = "images"
            /\ output_names' = <<"output0">>
            /\ input_height' = model_file.height
            /\ input_width' = model_file.width
            /\ names' = COCO_NAMES
    /\ UNCHANGED <<model_file, pr_args, pr_ret, pr_source, lh_event, lh_resp, ac_stats>>
    /\ UNCHANGED lbVars
    /\ UNCHANGED nmsVars
    /\ UNCHANGED ppVars
    /\ UNCHANGED btVars
    /\ UNCHANGED lblVars

\* results = model.predict(source, conf, iou, imgsz) by a caller of the model object
PredictCall ==
    /\ pr_pc = "loaded"
    /\ \E a \in PredictArgs :
         \E order \in ArgsortDescResults(FilteredScores(a.engine.rows, a.conf)) :
            /\ pr_args' = a
            /\ pr_ret' = Predict(Self, a, order)
    /\ pr_source' = pr_ret'.source
    /\ lh_event' = NoEvent
    /\ lh_resp' = NoResp
    /\ ac_stats' = NoStats
    /\ UNCHANGED <<model_file, pr_pc>>
    /\ UNCHANGED modelVars
    /\ UNCHANGED lbVars
    /\ UNCHANGED nmsVars
    /\ UNCHANGED ppVars
    /\ UNCHANGED btVars
    /\ UNCHANGED lblVars

\* lambda_handler(event, context) on the module's model object
LambdaHandlerCall ==
    /\ pr_pc = "loaded"
    /\ \E e \in HandlerEvents :
         \E order \in ArgsortDescResults(FilteredScores(e.engine.rows, e.conf)) :
            /\ lh_event' = e
            /\ pr_args' = IF ReachesPredict(e) THEN HandlerArgs(e) ELSE NoArgs
            /\ pr_ret' = IF ReachesPredict(e) THEN Predict(Self, HandlerArgs(e), order)
                                               ELSE NoRet
    /\ pr_source' = pr_ret'.source
    /\ lh_resp' = LambdaHandler(Self, lh_event', pr_ret')
    /\ ac_stats' = NoStats
    /\ UNCHANGED <<model_file, pr_pc>>
    /\ UNCHANGED modelVars
    /\ UNCHANGED lbVars
    /\ UNCHANGED nmsVars
    /\ UNCHANGED ppVars
    /\ UNCHANGED btVars
    /\ UNCHANGED lblVars

\* stats = annotate_and_count_image(model, img_path, conf_thres)
AnnotateAndCountImageCall ==
    /\ pr_pc = "loaded"
    /\ \E a \in AnnotateArgs :
         \E order \in ArgsortDescResults(FilteredScores(a.engine.rows, a.conf)) :
            /\ pr_args' = a
            /\ pr_ret' = Predict(Self, a, order)
    /\ pr_source' = pr_ret'.source
    /\ ac_stats' = AnnotateAndCountImage(
                        pr_ret', FilterVehicleDetections(pr_ret'.result, VEHICLE_CLASSES))
    /\ lh_event' = NoEvent
    /\ lh_resp' = NoResp
    /\ UNCHANGED <<model_file, pr_pc>>
    /\ UNCHANGED modelVars
    /\ UNCHANGED lbVars
    /\ UNCHANGED nmsVars
    /\ UNCHANGED ppVars
    /\ UNCHANGED btVars
    /\ UNCHANGED lblVars

NextPredict == YoloOnnxInit \/ PredictCall \/ LambdaHandlerCall \/ AnnotateAndCountImageCall

SpecPredict == InitPredict /\ [][NextPredict]_vars

---------------------------------------------------------------------------
(* is_vehicle_label and count_vehicles_timeseries_simple of run_func.py *)

\* str.lower()
Lower(name) == [i \in 1..Len(name) |-> [name[i] EXCEPT !.up = FALSE]]

\* token in name
Contains(name, token) ==
    \E i \in 1..(Len(name) - Len(token) + 1) : SubSeq(name, i, i + Len(token) - 1) = token

SmallVehicle == Lit(<<"s", "m", "a", "l", "l", "-", "v", "e", "h", "i", "c", "l", "e">>)
LargeVehicle == Lit(<<"l", "a", "r", "g", "e", "-", "v", "e", "h", "i", "c", "l", "e">>)
Vehicle == Lit(<<"v", "e", "h", "i", "c", "l", "e">>)

\* is_vehicle_label(name)
IsVehicleLabel(name) ==
    \/ Contains(Lower(name), SmallVehicle)
    \/ Contains(Lower(name), LargeVehicle)
    \/ Contains(Lower(name), Vehicle)

\* r.names of the OBB model the batch loads by default, cut to two of its entries
OBB_NAMES ==
    [k \in 0..1 |-> IF k = 0 THEN Lit(<<"p", "l", "a", "n", "e">>) ELSE SmallVehicle]

\* str(cls_id) for a one-digit class id
StrOfInt(i) == Lit(<<<<"0", "1", "2", "3", "4", "5", "6", "7", "8", "9">>[i + 1]>>)

\* names.get(int(cls_id), str(cls_id))
NamesGet(table, cls_id) == IF cls_id \in DOMAIN table THEN table[cls_id] ELSE StrOfInt(cls_id)

\* the labels of the detections the inner loop counts: those is_vehicle_label accepts
CountedLabels(table, classes) ==
    SelectSeq([k \in 1..Len(classes) |-> NamesGet(table, classes[k])], IsVehicleLabel)

\* the per_class dict the inner loop builds
PerClass(labels) ==
    [l \in Range(labels) |-> Cardinality({k \in 1..Len(labels) : labels[k] = l})]

\* an entry whose total is the number of rows of the result, vehicles or not
DetailsEntryTotalOfRows(date, item, obb) ==
    IF obb.none \/ Len(obb.classes) = 0
    THEN [date |-> date, image |-> item, total |-> 0, per_class |-> PerClass(<<>>),
          boxes |-> <<>>]
    ELSE [date |-> date, image |-> item,
          total |-> Len(obb.classes),
          per_class |-> PerClass(CountedLabels(OBB_NAMES, obb.classes)),
          boxes |-> CountedLabels(OBB_NAMES, obb.classes)]

\* the entry of `details` for one image: r.obb is None or empty, or its classes
DetailsEntry(date, item, obb) ==
    IF obb.none \/ Len(obb.classes) = 0
    THEN [date |-> date, image |-> item, total |-> 0, per_class |-> PerClass(<<>>),
          boxes |-> <<>>]
    ELSE [date |-> date, image |-> item,
          total |-> Len(CountedLabels(OBB_NAMES, obb.classes)),
          per_class |-> PerClass(CountedLabels(OBB_NAMES, obb.classes)),
          boxes |-> CountedLabels(OBB_NAMES, obb.classes)]

\* a function entry that builds the model before it compares the lengths
BatchEntryModelFirst(args) ==
    IF args.model_path = "onnx_missing"
    THEN [error |-> "FileNotFoundError", model |-> "None"]
    ELSE IF Len(args.image_paths) # Len(args.dates)
    THEN [error |-> "ValueError",
          model |-> IF args.model_path = "obb" THEN "YOLO_PT" ELSE "YOLO_ONNX"]
    ELSE [error |-> "none",
          model |-> IF args.model_path = "obb" THEN "YOLO_PT" ELSE "YOLO_ONNX"]

\* count_vehicles_timeseries_simple up to its loop: the length check, then the model
\* (ultralytics for an "obb" model path, YOLO_ONNX otherwise, whose __init__ raises
\* FileNotFoundError for a missing file)
BatchEntry(args) ==
    IF Len(args.image_paths) # Len(args.dates)
    THEN [error |-> "ValueError", model |-> "None"]
    ELSE IF args.model_path = "onnx_missing"
    THEN [error |-> "FileNotFoundError", model |-> "None"]
    ELSE [error |-> "none",
          model |-> IF args.model_path = "obb" THEN "YOLO_PT" ELSE "YOLO_ONNX"]

---------------------------------------------------------------------------
(* A call of count_vehicles_timeseries_simple, one loop iteration at a time *)

\* what a path of image_paths names: an image file, no file, a file cv2 cannot read
FileStates == {"image", "missing", "unreadable"}
ItemCounts == 0..MaxItems
\* r.obb of one prediction: None (always so for YOLO_ONNX), or the class ids of its rows
ObbOutcomes(model) ==
    IF model = "YOLO_ONNX"
    THEN {[none |-> TRUE, classes |-> <<>>]}
    ELSE {[none |-> TRUE, classes |-> <<>>]} \cup
         {[none |-> FALSE, classes |-> c] : c \in {<<>>, <<1>>, <<0, 1>>, <<1, 1>>, <<2>>}}
BatchArgs ==
    UNION {[image_paths : [1..n -> FileStates],
            dates : {[k \in 1..n |-> k], [k \in 1..(n + 1) |-> k]},
            model_path : {"obb", "onnx", "onnx_missing"}] : n \in ItemCounts}

InitBatch ==
    /\ input_height = 0
    /\ input_width = 0
    /\ SessionNone
    /\ PrIdle
    /\ LbIdle
    /\ NmsIdle
    /\ PpIdle
    /\ LblIdle
    /\ bt_pc = "start"
    /\ bt_args \in BatchArgs
    /\ bt_i = 0
    /\ bt_model = "None"
    /\ bt_out = NoBatchOut
    /\ bt_files = {}
    /\ bt_error = "none"
    /\ bt_infer = 0

\* lines 41-54: the checks and the model, before the loop
BatchEnter ==
    /\ bt_pc = "start"
    /\ bt_error' = BatchEntry(bt_args).error
    /\ bt_model' = BatchEntry(bt_args).model
    /\ bt_pc' = IF bt_error' = "none" THEN "loop" ELSE "raised"
    /\ UNCHANGED <<bt_args, bt_i, bt_out, bt_files, bt_infer>>
    /\ UNCHANGED modelVars
    /\ UNCHANGED prVars
    /\ UNCHANGED lbVars
    /\ UNCHANGED nmsVars
    /\ UNCHANGED ppVars
    /\ UNCHANGED lblVars

\* lines 56-158: one iteration of `for img_path, date in zip(image_paths, dates)`
BatchItem ==
    /\ bt_pc = "loop"
    /\ bt_i < Len(bt_args.image_paths)
    /\ bt_i' = bt_i + 1
    /\ IF bt_args.image_paths[bt_i'] = "missing"
       THEN /\ bt_pc' = "raised"
            /\ bt_error' = "FileNotFoundError"
            /\ UNCHANGED <<bt_out, bt_files, bt_infer>>
       ELSE IF bt_args.image_paths[bt_i'] = "unreadable"
       THEN /\ bt_pc' = "raised"
            /\ bt_error' = "RuntimeError"
            /\ UNCHANGED <<bt_out, bt_files, bt_infer>>
       ELSE /\ bt_infer' = bt_infer + 1
            /\ \E obb \in ObbOutcomes(bt_model) :
                 bt_out' =
                    [annotated_paths |-> Append(bt_out.annotated_paths, bt_i'),
                     counts |-> Append(bt_out.counts,
                                       DetailsEntry(bt_args.dates[bt_i'], bt_i', obb).total),
                     details |-> Append(bt_out.details,
                                        DetailsEntry(bt_args.dates[bt_i'], bt_i', obb))]
            /\ bt_files' = bt_files \cup {bt_i'}
            /\ UNCHANGED <<bt_pc, bt_error>>
    /\ UNCHANGED <<bt_args, bt_model>>
    /\ UNCHANGED modelVars
    /\ UNCHANGED prVars
    /\ UNCHANGED lbVars
    /\ UNCHANGED nmsVars
    /\ UNCHANGED ppVars
    /\ UNCHANGED lblVars

\* line 160: return annotated_paths, counts, details
BatchReturn ==
    /\ bt_pc = "loop"
    /\ bt_i = Len(bt_args.image_paths)
    /\ bt_pc' = "returned"
    /\ UNCHANGED <<bt_args, bt_i, bt_model, bt_out, bt_files, bt_error, bt_infer>>
    /\ UNCHANGED modelVars
    /\ UNCHANGED prVars
    /\ UNCHANGED lbVars
    /\ UNCHANGED nmsVars
    /\ UNCHANGED ppVars
    /\ UNCHANGED lblVars

NextBatch == BatchEnter \/ BatchItem \/ BatchReturn

SpecBatch == InitBatch /\ [][NextBatch]_vars

\* the model object and its callers together with the batch function
InitCallers == InitPredict \/ InitBatch

NextCallers == NextPredict \/ NextBatch

SpecCallers == InitCallers /\ [][NextCallers]_vars

---------------------------------------------------------------------------
(* The three vehicle-label tests, applied to one class name *)

Car == Lit(<<"c", "a", "r">>)
Truck == Lit(<<"t", "r", "u", "c", "k">>)

\* obb.py line 44: "vehicle" in cls_name or "car" in cls_name or "truck" in cls_name
ObbInlineTest(cls_name) ==
    \/ Contains(cls_name, Vehicle)
    \/ Contains(cls_name, Car)
    \/ Contains(cls_name, Truck)

\* a result with one box whose class is called cls_name
OneBoxResult(cls_name) ==
    ONNXDetectionResult(<<[box |-> <<Zero, Zero, FromInt(1), FromInt(1)>>,
                           conf |-> 3, cls |-> 0]>>,
                        [k \in {0} |-> cls_name], <<1, 1>>)

\* class names of the COCO and DOTA tables and names that contain one of them
LabelBases ==
    {Car, Truck, Vehicle, SmallVehicle, Lit(<<"b", "u", "s">>), Lit(<<"p", "l", "a", "n", "e">>),
     Lit(<<"c", "a", "r", "g", "o">>), Lit(<<"p", "e", "r", "s", "o", "n">>)}

\* the ways of writing the first CaseLen letters of a name in upper or lower case
CaseLen == 3
CaseVariants(name) ==
    {[i \in 1..Len(name) |-> [name[i] EXCEPT !.up = (i <= CaseLen /\ mask[i])]] :
        mask \in [1..CaseLen -> BOOLEAN]}
LabelNames == UNION {CaseVariants(b) : b \in LabelBases}

InitLabel ==
    /\ input_height = 0
    /\ input_width = 0
    /\ SessionNone
    /\ PrIdle
    /\ LbIdle
    /\ NmsIdle
    /\ PpIdle
    /\ BtIdle
    /\ lbl_pc = "start"
    /\ lbl_name \in LabelNames
    /\ lbl_out = NoLabelOut

\* run_func.py: is_vehicle_label(cls_name)
IsVehicleLabelCall ==
    /\ lbl_pc = "start"
    /\ lbl_out' = [lbl_out EXCEPT !.is_vehicle_label = IsVehicleLabel(lbl_name)]
    /\ lbl_pc' = "is_vehicle_label"
    /\ UNCHANGED lbl_name
    /\ UNCHANGED modelVars
    /\ UNCHANGED prVars
    /\ UNCHANGED lbVars
    /\ UNCHANGED nmsVars
    /\ UNCHANGED ppVars
    /\ UNCHANGED btVars

\* detect.py: filter_vehicle_detections on a result with one box of that class
FilterVehicleDetectionsCall ==
    /\ lbl_pc = "is_vehicle_label"
    /\ lbl_out' = [lbl_out EXCEPT !.filter_vehicle_detections =
                      FilterVehicleDetections(OneBoxResult(lbl_name), VEHICLE_CLASSES).out # <<>>]
    /\ lbl_pc' = "filter_vehicle_detections"
    /\ UNCHANGED lbl_name
    /\ UNCHANGED modelVars
    /\ UNCHANGED prVars
    /\ UNCHANGED lbVars
    /\ UNCHANGED nmsVars
    /\ UNCHANGED ppVars
    /\ UNCHANGED btVars

\* obb.py: the test inside the loop of run_yolo11_obb_single
RunYolo11ObbSingleTest ==
    /\ lbl_pc = "filter_vehicle_detections"
    /\ lbl_out' = [lbl_out EXCEPT !.run_yolo11_obb_single = ObbInlineTest(lbl_name)]
    /\ lbl_pc' = "done"
    /\ UNCHANGED lbl_name
    /\ UNCHANGED modelVars
    /\ UNCHANGED prVars
    /\ UNCHANGED lbVars
    /\ UNCHANGED nmsVars
    /\ UNCHANGED ppVars
    /\ UNCHANGED btVars

NextLabel == IsVehicleLabelCall \/ FilterVehicleDetectionsCall \/ RunYolo11ObbSingleTest

SpecLabel == InitLabel /\ [][NextLabel]_vars

---------------------------------------------------------------------------
(* Claims about predict and its callers *)

\* the latest predict call got as far as postprocess, and no anchor of the raw
\* output had a best class score above the confidence threshold
NoAnchorPasses ==
    /\ pr_ret.ran
    /\ pr_args.engine.ok
    /\ \A k \in 1..Len(pr_args.engine.rows) :
          \A c \in DOMAIN pr_args.engine.rows[k].scores :
             pr_args.engine.rows[k].scores[c] <= pr_args.conf

\* C12: when no anchor passes the confidence filter, predict returns without raising a
\* result of length 0 whose accessors are empty, lambda_handler answers 200 with
\* count 0 and no detections, and filter_vehicle_detections (in
\* annotate_and_count_image) returns an empty list with total 0.
C12_EmptyResult ==
    NoAnchorPasses =>
        /\ pr_ret.error = "none"
        /\ ResultLen(pr_ret.result) = 0
        /\ BoxesLen(pr_ret.result.boxes) = 0
        /\ BoxesXyxy(pr_ret.result.boxes) = <<>>
        /\ BoxesConf(pr_ret.result.boxes) = <<>>
        /\ BoxesCls(pr_ret.result.boxes) = <<>>
        /\ lh_event # NoEvent =>
             /\ lh_resp.statusCode = 200
             /\ lh_resp.count = 0
             /\ lh_resp.detections = <<>>
        /\ ac_stats.called =>
             /\ ac_stats.error = "none"
             /\ ac_stats.total = 0
             /\ ac_stats.vehicles = <<>>

\* C12 witness: lambda_handler ran inference on a raw output none of whose anchors
\* passes and has answered
C12_Witness ==
    /\ NoAnchorPasses
    /\ Len(pr_args.engine.rows) > 0
    /\ lh_event # NoEvent
    /\ lh_resp.statusCode = 200

\* C13: a predict call that decodes a class id outside the class-name table fails
\* with an error: no result that predict returns carries a class id that is not a key
\* of its names table.
C13_UnknownClassRejected ==
    (pr_ret.ran /\ pr_ret.error = "none") =>
        \A k \in 1..BoxesLen(pr_ret.result.boxes) :
            pr_ret.result.boxes[k].cls \in DOMAIN pr_ret.result.names

\* C14: a missing or unreadable image does not abort the batch: once the call has
\* passed its entry checks and ended, the loop has taken every item of image_paths
\* and the output has one entry per item.
C14_BatchContinues ==
    (bt_pc \in {"returned", "raised"} /\ BatchEntry(bt_args).error = "none") =>
        /\ bt_i = Len(bt_args.image_paths)
        /\ Len(bt_out.details) = Len(bt_args.image_paths)
        /\ Len(bt_out.counts) = Len(bt_args.image_paths)

\* C15: a precondition violation raises its error before anything is done.  A missing
\* model file: FileNotFoundError, no session and no attribute is set.  An image with
\* a zero dimension: predict raises before it prepares a tensor or runs inference.
\* image_paths and dates of different lengths: ValueError, and the call has built no
\* model, run no prediction and written no file; likewise for its model file missing.
C15_PreconditionsFailFirst ==
    /\ (pr_pc \in {"loaded", "load_raised"} /\ ~model_file.exists) =>
          /\ pr_pc = "load_raised"
          /\ SessionNone
          /\ input_height = 0
          /\ input_width = 0
    /\ (pr_args.kind = "array"
        /\ (pr_args.image.shape[1] = 0 \/ pr_args.image.shape[2] = 0)) =>
          /\ pr_ret.error = "ZeroDivisionError"
          /\ ~pr_ret.ran
          /\ pr_ret.tensor = NoImage
          /\ pr_ret.result = NoResult
          /\ ~ac_stats.wrote
    /\ (bt_pc \notin {"idle", "start"}
        /\ Len(bt_args.image_paths) # Len(bt_args.dates)) =>
          /\ bt_pc = "raised"
          /\ bt_error = "ValueError"
          /\ bt_model = "None"
          /\ bt_infer = 0
          /\ bt_files = {}
    /\ (bt_pc \notin {"idle", "start"}
        /\ Len(bt_args.image_paths) = Len(bt_args.dates)
        /\ bt_args.model_path = "onnx_missing") =>
          /\ bt_pc = "raised"
          /\ bt_error = "FileNotFoundError"
          /\ bt_model = "None"
          /\ bt_infer = 0
          /\ bt_files = {}

\* C15 witness: the batch was called with one date too many and a model file that
\* exists, and has raised
C15_Witness ==
    /\ bt_pc = "raised"
    /\ Len(bt_args.image_paths) # Len(bt_args.dates)
    /\ Len(bt_args.image_paths) > 0
    /\ bt_args.model_path = "obb"

\* the model object as __init__ left it for the model file that was loaded
LoadedSelf ==
    [session |-> "InferenceSession", input_name |-> "images", output_names |-> <<"output0">>,
     input_height |-> model_file.height, input_width |-> model_file.width,
     names |-> COCO_NAMES]

\* C17: every call that reaches predict on the loaded model, whatever calls came
\* before it, leaves session, input name, output names, input height/width and the
\* class-name table as __init__ set them, leaves the array (or the image read from the
\* path) it was given as it was, and returns what predict computes from this call's
\* arguments and the loaded model alone (the order of equal scores being the sort's).
C17_PredictFrameEffect ==
    [][(pr_pc = "loaded" /\ pr_args' # NoArgs) =>
          /\ modelVars' = modelVars
          /\ Self = LoadedSelf
          /\ pr_source' = pr_args'.image
          /\ \E order \in ArgsortDescResults(
                            FilteredScores(pr_args'.engine.rows, pr_args'.conf)) :
                pr_ret' = Predict(LoadedSelf, pr_args', order)]_vars

\* C17 witness: predict was given an array, ran inference and returned detections
C17_Witness ==
    /\ pr_pc = "loaded"
    /\ pr_args.kind = "array"
    /\ pr_ret.ran
    /\ pr_ret.error = "none"
    /\ ResultLen(pr_ret.result) > 0
    /\ pr_source = pr_args.image

\* C18: whenever predict hands a tensor to the inference engine, on any entry path,
\* the image was BGR when it reached preprocess and the tensor is in RGB order.
C18_TensorIsRGB ==
    pr_ret.ran =>
        /\ pr_args.image.ch = BGR
        /\ pr_ret.tensor.ch = RGB

\* the name contains one of the tokens 'vehicle', 'car', 'truck', in any letter case
HasVehicleToken(name) ==
    \/ Contains(Lower(name), Vehicle)
    \/ Contains(Lower(name), Car)
    \/ Contains(Lower(name), Truck)

\* C19: each of the three filters gives a class name the answer it gives the name in
\* lower case, and a name that contains a token is selected by all three.
C19_CaseInsensitiveSubstring ==
    lbl_pc = "done" =>
        /\ lbl_out.is_vehicle_label = IsVehicleLabel(Lower(lbl_name))
        /\ lbl_out.filter_vehicle_detections =
              (FilterVehicleDetections(OneBoxResult(Lower(lbl_name)), VEHICLE_CLASSES).out # <<>>)
        /\ lbl_out.run_yolo11_obb_single = ObbInlineTest(Lower(lbl_name))
        /\ HasVehicleToken(lbl_name) =>
              /\ lbl_out.is_vehicle_label
              /\ lbl_out.filter_vehicle_detections
              /\ lbl_out.run_yolo11_obb_single

\* C20: in every call that reaches preprocess, whatever imgsz it was given, the canvas
\* asked of _letterbox is the height and width the loaded model file declares, the
\* tensor is the letterbox to that canvas, and the boxes of the result are scaled back
\* by _scale_boxes with that same height and width.
C20_CanvasIsDeclaredInput ==
    (pr_args # NoArgs /\ (pr_args.kind = "path" => pr_args.readable)) =>
        /\ pr_ret.canvas = <<model_file.height, model_file.width>>
        /\ <<input_height, input_width>> = <<model_file.height, model_file.width>>
        /\ pr_ret.ran =>
              pr_ret.tensor =
                  TensorOf(pr_args.image,
                           Letterbox(pr_args.image.shape,
                                     <<model_file.height, model_file.width>>))
        /\ (pr_ret.ran /\ pr_ret.error = "none") =>
              \E order \in ArgsortDescResults(
                              FilteredScores(pr_args.engine.rows, pr_args.conf)) :
                  pr_ret.result.boxes =
                      Postprocess(pr_args.engine.rows, pr_args.image.shape, pr_args.conf,
                                  pr_args.iou, model_file.height, model_file.width, order)

\* C20 witness: a model that declares a non-square input, a predict call on a
\* landscape image with an imgsz that is neither of the declared sides, and a result
\* with a box
C20_Witness ==
    /\ pr_pc = "loaded"
    /\ model_file.height # model_file.width
    /\ pr_args.imgsz \notin {model_file.height, model_file.width}
    /\ pr_args.imgsz # MaxCanvas
    /\ pr_args.image.shape[1] # pr_args.image.shape[2]
    /\ pr_ret.error = "none"
    /\ ResultLen(pr_ret.result) > 0
    /\ pr_ret.canvas = <<model_file.height, model_file.width>>

\* the body of the event parsed to an object
BodyParsed == lh_event.body \in {"absent", "valid"}

\* a step of the handler raised: parsing the body, decoding the image, predict, or
\* the lookup of a class name while the detections are formatted
HandlerStepRaised ==
    \/ ~BodyParsed
    \/ lh_event.image = "undecodable"
    \/ /\ lh_event.image = "ok"
       /\ \/ pr_ret.error # "none"
          \/ \E k \in 1..BoxesLen(pr_ret.result.boxes) :
                pr_ret.result.boxes[k].cls \notin DOMAIN names

\* C22: every call of lambda_handler returns a response with statusCode 200, 400 or
\* 500: 400, with no inference run, exactly when the parsed body has no non-empty
\* image; 500 exactly when parsing, decoding, inference or formatting raised; and
\* otherwise 200 with one detection per box of the result and count their number.
C22_HandlerStatus ==
    lh_event # NoEvent =>
        /\ lh_resp.statusCode \in {200, 400, 500}
        /\ lh_resp.statusCode = 400 <=>
              (BodyParsed /\ lh_event.image \in {"absent", "empty"})
        /\ lh_resp.statusCode = 400 => (pr_args = NoArgs /\ ~pr_ret.ran)
        /\ lh_resp.statusCode = 500 <=> HandlerStepRaised
        /\ lh_resp.statusCode = 500 => lh_resp.error # "none"
        /\ lh_resp.statusCode = 200 =>
              /\ lh_resp.count = Len(lh_resp.detections)
              /\ Len(lh_resp.detections) = ResultLen(pr_ret.result)
              /\ pr_ret.ran

\* C22 witness: the handler answered 200 with at least one detection
C22_Witness ==
    /\ lh_event # NoEvent
    /\ lh_resp.statusCode = 200
    /\ lh_resp.count >= 1

\* sum(d.values()) of a dict d
RECURSIVE SumValues(_)
SumValues(d) ==
    IF DOMAIN d = {} THEN 0
    ELSE LET k == CHOOSE x \in DOMAIN d : TRUE
         IN  d[k] + SumValues([x \in (DOMAIN d) \ {k} |-> d[x]])

\* C23: when count_vehicles_timeseries_simple returns, annotated_paths, counts and
\* details have one entry per input image, in input order, and for every i counts[i],
\* details[i].total, the length of details[i].boxes and the sum of the values of
\* details[i].per_class are one number, and details[i].date is dates[i].
C23_BatchListsConsistent ==
    bt_pc = "returned" =>
        /\ Len(bt_out.annotated_paths) = Len(bt_args.image_paths)
        /\ Len(bt_out.counts) = Len(bt_args.image_paths)
        /\ Len(bt_out.details) = Len(bt_args.image_paths)
        /\ \A i \in 1..Len(bt_args.image_paths) :
              /\ bt_out.annotated_paths[i] = i
              /\ bt_out.details[i].image = i
              /\ bt_out.details[i].date = bt_args.dates[i]
              /\ bt_out.counts[i] = bt_out.details[i].total
              /\ bt_out.details[i].total = Len(bt_out.details[i].boxes)
              /\ bt_out.details[i].total = SumValues(bt_out.details[i].per_class)

\* C23 witness: a batch of two images or more has returned, one image with vehicles
\* counted and one with none
C23_Witness ==
    /\ bt_pc = "returned"
    /\ Len(bt_out.details) >= 2
    /\ \E i \in 1..Len(bt_out.details) : bt_out.counts[i] >= 1
    /\ \E i \in 1..Len(bt_out.details) : bt_out.counts[i] = 0

====
